---------------------------- MODULE Spec2Model ----------------------------
(***************************************************************************)
(* A model of ch_trees/gui.py, the Blender front end of the tree           *)
(* generator: the folder scan that builds the two tree-type drop-downs,    *)
(* the "Generate Tree" operator that starts one worker thread per request, *)
(* the worker (_construct) and the customizer inputs.  The two generators  *)
(* (ch_trees.parametric.gen, ch_trees.lsystems.gen) are separate modules:  *)
(* the turtle interpreter and the pruning retry loop are modelled from the *)
(* design document and are marked as such.                                 *)
(*                                                                         *)
(* The Python string operations of the folder scan (split, replace, title, *)
(* format, startswith) are computed character by character.                *)
(* Floats of the customizer are integers in units of 10^-6.                *)
(***************************************************************************)
EXTENDS Integers, Sequences, FiniteSets, TLC

VARIABLES
    \* ---- gui.py: drop-downs, scene inputs, worker threads
    para_enum,      \* bpy.types.Scene.para_tree_type_input: [items, default]
    lsys_enum,      \* bpy.types.Scene.lsys_tree_type_input: [items, default]
    presets,        \* module name -> mod.params of the preset modules on disk
    scene,          \* context.scene: the inputs the panel edits
    edits,          \* number of edits the user has made to the scene inputs
    pc,             \* per request: position of its worker thread in _construct
    host,           \* per request: what execute returned to the host
    snap,           \* per request: the scene inputs when execute was called
    mode,           \* per request: tree_gen_method_input as read at line 101
    mod_name,       \* per request: local mod_name of _construct
    call,           \* per request: the generator call made, with its arguments
    seen,           \* per request: seed and leaf flag in effect when the generator was called
    exc,            \* per request: the exception that left _construct, if any
    stdout,         \* per request: what _construct wrote to sys.stdout
    \* ---- customizer inputs (_initialize_customizer_params)
    cust,
    \* ---- L-system turtle (ch_trees.lsystems, from the design document)
    tstr, ti, turtle, tstack, tstatus, thist, stems,
    \* ---- pruning retry loop (ch_trees.parametric, from the design document)
    pstem, plen, ptries, pstatus, pwarn, pbest

guiVars    == <<para_enum, lsys_enum, presets, scene, edits, pc, host, snap,
                mode, mod_name, call, seen, exc, stdout>>
custVars   == <<cust>>
turtleVars == <<tstr, ti, turtle, tstack, tstatus, thist, stems>>
pruneVars  == <<pstem, plen, ptries, pstatus, pwarn, pbest>>
vars       == <<guiVars, custVars, turtleVars, pruneVars>>
others     == <<custVars, turtleVars, pruneVars>>

---------------------------------------------------------------------------
(* Bounds of the model *)
MaxRequests == 2      \* requests (calls of execute) in one run
MaxEdits    == 1      \* edits of the scene inputs in one run
MaxSeed     == 1      \* seeds typed in range over -1 .. MaxSeed
MaxSymbols  == 4      \* length of the symbol strings the turtle interprets
MaxStems    == 2      \* child stems generated in one run of the pruning loop
MaxStemLen  == 3      \* longest candidate stem the generator draws
MaxPos      == 2      \* farthest split point and widest envelope

---------------------------------------------------------------------------
(* Python string operations *)

LowerCase == <<"a", "b", "c", "d", "e", "f", "g", "h", "i", "j", "k", "l", "m",
               "n", "o", "p", "q", "r", "s", "t", "u", "v", "w", "x", "y", "z">>
UpperCase == <<"A", "B", "C", "D", "E", "F", "G", "H", "I", "J", "K", "L", "M",
               "N", "O", "P", "Q", "R", "S", "T", "U", "V", "W", "X", "Y", "Z">>

Range(s) == {s[i] : i \in DOMAIN s}
Char(s, i) == SubSeq(s, i, i)
IsLetter(c) == c \in Range(LowerCase) \cup Range(UpperCase)
IndexIn(c, alphabet) == CHOOSE i \in DOMAIN alphabet : alphabet[i] = c
ToUpper(c) == IF c \in Range(LowerCase) THEN UpperCase[IndexIn(c, LowerCase)] ELSE c
ToLower(c) == IF c \in Range(UpperCase) THEN LowerCase[IndexIn(c, UpperCase)] ELSE c

\* f.split('.')[0]: the text before the first '.'
SplitDot0(f) ==
    LET dots == {i \in 1..Len(f) : Char(f, i) = "."}
        cut  == IF dots = {} THEN Len(f) + 1
                ELSE CHOOSE i \in dots : \A j \in dots : i <= j
    IN  SubSeq(f, 1, cut - 1)

\* f.replace('_', ' ')
RECURSIVE ReplaceUnderscore(_)
ReplaceUnderscore(f) ==
    IF Len(f) = 0 THEN ""
    ELSE (IF Char(f, 1) = "_" THEN " " ELSE Char(f, 1))
            \o ReplaceUnderscore(SubSeq(f, 2, Len(f)))

\* str.title(): a letter that starts a word is upper-cased, every other letter
\* is lower-cased; a word starts after any character that is not a letter
TitleChar(f, i) ==
    IF ~IsLetter(Char(f, i)) THEN Char(f, i)
    ELSE IF i = 1 \/ ~IsLetter(Char(f, i - 1)) THEN ToUpper(Char(f, i))
    ELSE ToLower(Char(f, i))

RECURSIVE TitleUpTo(_, _)
TitleUpTo(f, n) == IF n = 0 THEN "" ELSE TitleUpTo(f, n - 1) \o TitleChar(f, n)

Title(f) == TitleUpTo(f, Len(f))

\* mod_name.startswith(prefix)
StartsWith(s, prefix) ==
    /\ Len(s) >= Len(prefix)
    /\ SubSeq(s, 1, Len(prefix)) = prefix

---------------------------------------------------------------------------
(* The package and the files that its two scanned folders may hold *)

\* addon_name: the folder that holds gui.py, which lines 9-10 import as ch_trees
addon_name == "ch_trees"

module_path_parts == << <<"parametric", "tree_params">>, <<"lsystems", "sys_defs">> >>

\* os.listdir gives the files in no particular order; the folders are not empty
\* (quaking_aspen = modules[0] raises IndexError on an empty folder)
ParaListings == { <<"acer.py", "quaking_aspen.py">>, <<"acer.py">> }
LsysListings == { <<"fern.py", "quaking_aspen.py">>, <<"fern.py">> }

---------------------------------------------------------------------------
(* _get_tree_types *)

\* '{}.{}.{}'.format(addon_name, '.'.join(modparts), f)
ModuleName(modparts, f) ==
    addon_name \o "." \o modparts[1] \o "." \o modparts[2] \o "." \o f

Files(listing)            == [i \in DOMAIN listing |-> SplitDot0(listing[i])]
Modules(modparts, listing) == [i \in DOMAIN listing |-> ModuleName(modparts, Files(listing)[i])]
Titles(listing)           == [i \in DOMAIN listing |-> Title(ReplaceUnderscore(Files(listing)[i]))]

\* the value of the local quaking_aspen after the inner loop over one folder:
\* modules[0], overwritten by each module whose title is 'Quaking Aspen'
QuakingAspenOf(modparts, listing) ==
    LET hits == {i \in DOMAIN listing : Titles(listing)[i] = "Quaking Aspen"}
    IN  IF hits = {} THEN Modules(modparts, listing)[1]
        ELSE Modules(modparts, listing)[CHOOSE i \in hits : \A j \in hits : j <= i]

\* options of one folder: (module, title, title)
Options(modparts, listing) ==
    [i \in DOMAIN listing |->
        [value |-> Modules(modparts, listing)[i], label |-> Titles(listing)[i]]]

\* ('custom', 'Custom' 'Custom parameters'): the two adjacent literals are one string
CustomOption ==
    [value |-> "custom", label |-> "Custom" \o "Custom parameters"]

\* the default handed to both EnumProperty objects: the local quaking_aspen as the
\* outer loop leaves it, that is the one of the folder scanned last
DefaultAfterLoop(paraListing, lsysListing) ==
    QuakingAspenOf(module_path_parts[2], lsysListing)

\* The list is created as enums_options and used as enum_options; the model reads
\* the two spellings as one list.
GetTreeTypes(paraListing, lsysListing) ==
    LET enum_options ==
            << Append(Options(module_path_parts[1], paraListing), CustomOption),
               Options(module_path_parts[2], lsysListing) >>
    IN  [k \in 1..2 |->
            [items   |-> enum_options[k],
             default |-> DefaultAfterLoop(paraListing, lsysListing)]]

Values(enum) == {enum.items[i].value : i \in DOMAIN enum.items}


---------------------------------------------------------------------------
(* Inputs declared in the body of class TreeGen *)

Requests == 1..MaxRequests

\* bpy.props.IntProperty / FloatProperty keep an assigned value within [min, max]
Clamp(v, lo, hi) == IF v < lo THEN lo ELSE IF v > hi THEN hi ELSE v

seed_input_min == 0
seed_input_max == 9999999

\* os.path.sep.join((os.path.expanduser('~'), 'treegen_render.png'))
render_output_path == "~/treegen_render.png"

GenMethods == {"parametric", "lsystem"}

\* the scene inputs as the class body declares them
SceneDefaults(pe, le) ==
    [tree_gen_method_input    |-> "parametric",
     para_tree_type_input     |-> pe.default,
     lsys_tree_type_input     |-> le.default,
     seed_input               |-> 0,
     generate_leaves_input    |-> TRUE,
     simplify_geometry_input  |-> FALSE,
     render_input             |-> FALSE,
     render_output_path_input |-> render_output_path]

\* mod.params of a preset module: what the file on disk defines.  A preset file
\* is plain Python that anyone can edit; nothing in gui.py constrains it.
SoundPreset == [g_scale |-> 13000000, levels |-> 3, ratio |-> 15000]
PresetChoices ==
    { SoundPreset,
      [g_scale |-> 13000000, levels |-> 7, ratio |-> 0],       \* out of range
      [g_scale |-> 13000000, levels |-> 3] }                   \* a field missing

NoCall == [gen |-> "none"]

\* arguments of parametric.gen.construct at line 106, read from the scene as it is
\* when the call is made
ParametricCall(params, sc) ==
    [gen                |-> "parametric",
     params             |-> params,
     seed               |-> sc.seed_input,
     render             |-> sc.render_input,
     render_output_path |-> sc.render_output_path_input,
     generate_leaves    |-> sc.generate_leaves_input]

\* a call of the L-system generator that also hands it the seed, as the
\* parametric call does
LSystemCallWithSeed(name, sc) ==
    [gen             |-> "lsystem",
     mod_name        |-> name,
     seed            |-> sc.seed_input,
     generate_leaves |-> sc.generate_leaves_input]

\* arguments of lsystems.gen.construct at line 109
LSystemCall(name, sc) ==
    [gen             |-> "lsystem",
     mod_name        |-> name,
     generate_leaves |-> sc.generate_leaves_input]

---------------------------------------------------------------------------
(* The panel: the user edits one scene input (TreeGenPanel.draw lays the   *)
(* inputs out; every input stays assignable whatever the panel shows)      *)

SetInput(field, value) ==
    /\ edits < MaxEdits
    /\ edits' = edits + 1
    /\ scene' = [scene EXCEPT ![field] = value]
    /\ UNCHANGED <<para_enum, lsys_enum, presets, pc, host, snap, mode, mod_name,
                   call, seen, exc, stdout>>
    /\ UNCHANGED others

EditMethod   == \E v \in GenMethods : SetInput("tree_gen_method_input", v)
EditParaType == \E v \in Values(para_enum) : SetInput("para_tree_type_input", v)
EditLsysType == \E v \in Values(lsys_enum) : SetInput("lsys_tree_type_input", v)
EditSeed     == \E v \in -1..MaxSeed :
                    SetInput("seed_input", Clamp(v, seed_input_min, seed_input_max))
EditLeaves   == \E v \in BOOLEAN : SetInput("generate_leaves_input", v)
EditSimplify == \E v \in BOOLEAN : SetInput("simplify_geometry_input", v)
EditRender   == \E v \in BOOLEAN : SetInput("render_input", v)

---------------------------------------------------------------------------
(* TreeGen.execute: start a thread on _construct and return {'FINISHED'} *)

execute(r) ==
    /\ pc[r] = "idle"
    /\ \A q \in Requests : q < r => pc[q] # "idle"     \* requests are numbered as issued
    /\ pc'   = [pc EXCEPT ![r] = "l101"]
    /\ host' = [host EXCEPT ![r] = "FINISHED"]
    /\ snap' = [snap EXCEPT ![r] = scene]
    /\ UNCHANGED <<para_enum, lsys_enum, presets, scene, edits, mode, mod_name,
                   call, seen, exc, stdout>>
    /\ UNCHANGED others

---------------------------------------------------------------------------
(* TreeGen._construct.  The worker shares the scene with the panel, so each *)
(* action is one stretch of _construct between two points where an edit of *)
(* the scene can change what it goes on to read.                           *)

\* line 101: mod_name = para_tree_type_input if method == 'parametric'
\*           else lsys_tree_type_input
SelectedType(sc) ==
    IF sc.tree_gen_method_input = "parametric" THEN sc.para_tree_type_input
    ELSE sc.lsys_tree_type_input

Line101(r) ==
    /\ pc[r] = "l101"
    /\ mode'     = [mode EXCEPT ![r] = scene.tree_gen_method_input]
    /\ mod_name' = [mod_name EXCEPT ![r] = SelectedType(scene)]
    /\ pc'       = [pc EXCEPT ![r] = "l103"]
    /\ UNCHANGED <<para_enum, lsys_enum, presets, scene, edits, host, snap,
                   call, seen, exc, stdout>>
    /\ UNCHANGED others

\* lines 103-109: which generator is called, with which arguments
GeneratorCall(name, sc) ==
    IF StartsWith(name, "ch_trees.parametric")
    THEN ParametricCall(presets[name], sc)
    ELSE LSystemCall(name, sc)

CallGenerator(r) ==
    /\ pc[r] = "l103"
    /\ call' = [call EXCEPT ![r] = GeneratorCall(mod_name[r], scene)]
    /\ seen' = [seen EXCEPT ![r] = [seed   |-> scene.seed_input,
                                     leaves |-> scene.generate_leaves_input]]
    /\ pc' = [pc EXCEPT ![r] = "generating"]
    /\ UNCHANGED <<para_enum, lsys_enum, presets, scene, edits, host, snap,
                   mode, mod_name, exc, stdout>>
    /\ UNCHANGED others

\* the generator raises: nothing in _construct or execute catches it
GeneratorRaises(r) ==
    /\ pc[r] = "generating"
    /\ pc'  = [pc EXCEPT ![r] = "crashed"]
    /\ exc' = [exc EXCEPT ![r] = "GeneratorError"]
    /\ UNCHANGED <<para_enum, lsys_enum, presets, scene, edits, host, snap,
                   mode, mod_name, call, seen, stdout>>
    /\ UNCHANGED others

\* the generator returns; line 111 reads the flag, lines 114-115 announce the
\* simplification when it is set
GeneratorReturns(r) ==
    /\ pc[r] = "generating"
    /\ IF scene.simplify_geometry_input
       THEN /\ stdout' = [stdout EXCEPT ![r] = Append(@, "Simplifying")]
            /\ pc' = [pc EXCEPT ![r] = "l120"]
       ELSE /\ pc' = [pc EXCEPT ![r] = "done"]
            /\ UNCHANGED stdout
    /\ UNCHANGED <<para_enum, lsys_enum, presets, scene, edits, host, snap,
                   mode, mod_name, call, seen, exc>>
    /\ UNCHANGED others

\* line 120 returns, lines 125-126
SimplifyReturns(r) ==
    /\ pc[r] = "l120"
    /\ stdout' = [stdout EXCEPT ![r] = Append(@, "complete")]
    /\ pc' = [pc EXCEPT ![r] = "done"]
    /\ UNCHANGED <<para_enum, lsys_enum, presets, scene, edits, host, snap,
                   mode, mod_name, call, seen, exc>>
    /\ UNCHANGED others

\* what evaluating traceback.print_exec() at line 122 does: the traceback module
\* has print_exc and print_exception but no print_exec, so the attribute lookup
\* raises AttributeError inside the handler
HandlerOutcome == "AttributeError"

\* line 120 raises an Exception and the handler of lines 121-123 runs; lines
\* 125-126 follow only when the handler itself raised nothing
SimplifyRaises(r) ==
    /\ pc[r] = "l120"
    /\ IF HandlerOutcome = "printed"
       THEN /\ stdout' = [stdout EXCEPT ![r] = Append(Append(@, "traceback"), "complete")]
            /\ pc' = [pc EXCEPT ![r] = "done"]
            /\ UNCHANGED exc
       ELSE /\ pc'  = [pc EXCEPT ![r] = "crashed"]
            /\ exc' = [exc EXCEPT ![r] = HandlerOutcome]
            /\ UNCHANGED stdout
    /\ UNCHANGED <<para_enum, lsys_enum, presets, scene, edits, host, snap,
                   mode, mod_name, call, seen>>
    /\ UNCHANGED others

---------------------------------------------------------------------------
(* The front end as a whole *)

NoString == ""

InitCustOff   == cust = 0
InitTurtleOff == /\ tstr = <<>> /\ ti = 0 /\ turtle = 0 /\ tstack = <<>>
                 /\ tstatus = "off" /\ thist = <<>> /\ stems = <<>>
InitPruneOff  == /\ pstem = 0 /\ plen = 0 /\ ptries = 0 /\ pstatus = "off"
                 /\ pwarn = 0 /\ pbest = 0
InitGuiOff ==
    /\ para_enum = 0 /\ lsys_enum = 0 /\ presets = 0 /\ scene = 0 /\ edits = 0
    /\ pc = 0 /\ host = 0 /\ snap = 0 /\ mode = 0 /\ mod_name = 0 /\ call = 0
    /\ seen = 0 /\ exc = 0 /\ stdout = 0

\* no request issued yet
InitWorkers ==
    /\ edits = 0
    /\ pc        = [r \in Requests |-> "idle"]
    /\ host      = [r \in Requests |-> "none"]
    /\ snap      = [r \in Requests |-> scene]
    /\ mode      = [r \in Requests |-> "none"]
    /\ mod_name  = [r \in Requests |-> NoString]
    /\ call      = [r \in Requests |-> NoCall]
    /\ seen      = [r \in Requests |-> [seed |-> 0, leaves |-> TRUE]]
    /\ exc       = [r \in Requests |-> "none"]
    /\ stdout    = [r \in Requests |-> <<>>]
    /\ InitCustOff /\ InitTurtleOff /\ InitPruneOff

PresetModules == {v \in Values(para_enum) : StartsWith(v, "ch_trees.parametric")}

\* the add-on as registered: any folder content, any preset files, every scene
\* input at its default
Init ==
    /\ \E pl \in ParaListings, ll \in LsysListings :
          /\ para_enum = GetTreeTypes(pl, ll)[1]
          /\ lsys_enum = GetTreeTypes(pl, ll)[2]
    /\ presets \in [PresetModules -> PresetChoices]
    /\ scene = SceneDefaults(para_enum, lsys_enum)
    /\ InitWorkers

\* one installation (both folders hold a quaking aspen and one more tree, every
\* preset file is sound) in which the user has already switched the method
\* drop-down to L-System
InitLSystemMode ==
    /\ para_enum = GetTreeTypes(<<"acer.py", "quaking_aspen.py">>, <<"fern.py", "quaking_aspen.py">>)[1]
    /\ lsys_enum = GetTreeTypes(<<"acer.py", "quaking_aspen.py">>, <<"fern.py", "quaking_aspen.py">>)[2]
    /\ presets = [m \in PresetModules |-> SoundPreset]
    /\ scene = [SceneDefaults(para_enum, lsys_enum) EXCEPT !.tree_gen_method_input = "lsystem"]
    /\ InitWorkers

Next ==
    \/ EditMethod
    \/ EditParaType
    \/ EditLsysType
    \/ EditSeed
    \/ EditLeaves
    \/ EditSimplify
    \/ EditRender
    \/ \E r \in Requests : execute(r)
    \/ \E r \in Requests : Line101(r)
    \/ \E r \in Requests : CallGenerator(r)
    \/ \E r \in Requests : GeneratorReturns(r)
    \/ \E r \in Requests : GeneratorRaises(r)
    \/ \E r \in Requests : SimplifyReturns(r)
    \/ \E r \in Requests : SimplifyRaises(r)

Spec == Init /\ [][Next]_vars

SpecLSystemMode == InitLSystemMode /\ [][Next]_vars


---------------------------------------------------------------------------
(* Customizer inputs, _initialize_customizer_params lines 152-208.  Floats  *)
(* are in units of 10^-6, so min=.000001 is 1 and min=.0001 is 100.        *)

CustomizerInputs ==
    {"g_scale_input", "g_scale_v_input", "tree_level_count_input", "tree_ratio_input",
     "tree_ratio_power_input", "tree_floor_split_input", "tree_leaf_scale",
     "tree_leaf_scale_x", "tree_blossom_scale_input"}

PropDefault(p) ==
    CASE p = "g_scale_input"            -> 13000000
      [] p = "g_scale_v_input"          -> 3000000
      [] p = "tree_level_count_input"   -> 3
      [] p = "tree_ratio_input"         -> 15000
      [] p = "tree_ratio_power_input"   -> 1200000
      [] p = "tree_floor_split_input"   -> 0
      [] p = "tree_leaf_scale"          -> 170000
      [] p = "tree_leaf_scale_x"        -> 1000000
      [] p = "tree_blossom_scale_input" -> 1000000

\* the minima with the overall scale allowed to reach zero, as its variance is
PropMinScaleFromZero(p) ==
    CASE p = "g_scale_input"            -> 0
      [] p = "g_scale_v_input"          -> 0
      [] p = "tree_level_count_input"   -> 1
      [] p = "tree_ratio_input"         -> 1
      [] p = "tree_ratio_power_input"   -> 0
      [] p = "tree_floor_split_input"   -> 0
      [] p = "tree_leaf_scale"          -> 100
      [] p = "tree_leaf_scale_x"        -> 100
      [] p = "tree_blossom_scale_input" -> 100

PropMin(p) ==
    CASE p = "g_scale_input"            -> 1
      [] p = "g_scale_v_input"          -> 0
      [] p = "tree_level_count_input"   -> 1
      [] p = "tree_ratio_input"         -> 1
      [] p = "tree_ratio_power_input"   -> 0
      [] p = "tree_floor_split_input"   -> 0
      [] p = "tree_leaf_scale"          -> 100
      [] p = "tree_leaf_scale_x"        -> 100
      [] p = "tree_blossom_scale_input" -> 100

PropMax(p) ==
    CASE p = "g_scale_input"            -> 150000000
      [] p = "g_scale_v_input"          -> 149990000
      [] p = "tree_level_count_input"   -> 6
      [] p = "tree_ratio_input"         -> 1000000
      [] p = "tree_ratio_power_input"   -> 5000000
      [] p = "tree_floor_split_input"   -> 500
      [] p = "tree_leaf_scale"          -> 1000000000
      [] p = "tree_leaf_scale_x"        -> 1000000000
      [] p = "tree_blossom_scale_input" -> 1000000000

\* values a user may type into an input: below every minimum, zero, the smallest
\* positive value, above every maximum
TypedValues == {-1000000, -1, 0, 1, 2000000000}

InitCustomizer ==
    /\ cust = [p \in CustomizerInputs |-> PropDefault(p)]
    /\ InitGuiOff /\ InitTurtleOff /\ InitPruneOff

\* assigning a customizer input: the property keeps the value within [min, max]
SetCustomizerInput ==
    \E p \in CustomizerInputs, v \in TypedValues :
        /\ cust' = [cust EXCEPT ![p] = Clamp(v, PropMin(p), PropMax(p))]
        /\ UNCHANGED <<guiVars, turtleVars, pruneVars>>

NextCustomizer == SetCustomizerInput

SpecCustomizer == InitCustomizer /\ [][NextCustomizer]_vars


---------------------------------------------------------------------------
(* Properties of the front end *)

Called(r) == call[r] # NoCall

\* the options of the drop-down that the panel shows for a method
SelectableTypes(method) ==
    IF method = "parametric" THEN Values(para_enum) ELSE Values(lsys_enum)

\* C1: every request invokes the generator of the mode it selected: the
\* parametric generator when the method read at line 101 is 'parametric' (for
\* every tree type of that drop-down, 'custom' included), the L-system generator
\* when it is 'lsystem'.
C1_GeneratorOfSelectedMode ==
    \A r \in Requests :
        (Called(r) /\ mod_name[r] \in SelectableTypes(mode[r]))
        => call[r].gen = (IF mode[r] = "parametric" THEN "parametric" ELSE "lsystem")

\* the documented ranges of a ParameterSet, as far as the presets of this model
\* have fields: every field present, each within the range of its customizer input
InDocumentedRanges(params) ==
    /\ DOMAIN params = {"g_scale", "levels", "ratio"}
    /\ params.g_scale >= PropMin("g_scale_input")
    /\ params.g_scale <= PropMax("g_scale_input")
    /\ params.levels  >= PropMin("tree_level_count_input")
    /\ params.levels  <= PropMax("tree_level_count_input")
    /\ params.ratio   >= PropMin("tree_ratio_input")
    /\ params.ratio   <= PropMax("tree_ratio_input")

\* C2: a request whose ParameterSet is out of the documented ranges, or lacks a
\* field, is rejected before the generator is started: the parametric generator
\* is only ever called with a ParameterSet that passes validation.
C2_ValidatedBeforeGeneration ==
    \A r \in Requests :
        (Called(r) /\ call[r].gen = "parametric") => InDocumentedRanges(call[r].params)

\* C3: when the generator fails inside the worker, what the host received for
\* that request is an error, never a success result.
C3_FailureReportedToHost ==
    \A r \in Requests : exc[r] = "GeneratorError" => host[r] # "FINISHED"

\* C4: the generator call of a request is made with the tree type, seed and
\* flags that were in effect when execute was called for it, whatever is edited
\* or requested while its worker runs.
C4_UsesInputsAtExecute ==
    \A r \in Requests :
        Called(r) => call[r] = GeneratorCall(SelectedType(snap[r]), snap[r])

\* C5: a failure of simplify_branch_geometry is caught and reported: once the
\* simplification of a request has been started, no exception leaves _construct
\* and the request does not end as crashed.
C5_SimplifyFailureNonFatal ==
    \A r \in Requests :
        "Simplifying" \in Range(stdout[r]) => (exc[r] = "none" /\ pc[r] # "crashed")

\* C9: the L-system call does not depend on the seed: any two requests that
\* invoked the L-system generator for the same tree type with the same leaf flag
\* made the same call, whatever seed_input was at either call.
C9_LSystemIgnoresSeed ==
    \A r1, r2 \in Requests :
        ( /\ Called(r1) /\ call[r1].gen = "lsystem"
          /\ Called(r2) /\ call[r2].gen = "lsystem"
          /\ mod_name[r1] = mod_name[r2]
          /\ seen[r1].leaves = seen[r2].leaves )
        => call[r1] = call[r2]

\* two finished L-system requests for the same tree and leaf flag, issued in
\* 'lsystem' mode under different seeds
C9_Witness ==
    \E r1, r2 \in Requests :
        /\ pc[r1] = "done" /\ pc[r2] = "done"
        /\ mode[r1] = "lsystem" /\ mode[r2] = "lsystem"
        /\ call[r1].gen = "lsystem" /\ call[r2].gen = "lsystem"
        /\ mod_name[r1] = mod_name[r2]
        /\ seen[r1].leaves = seen[r2].leaves
        /\ seen[r1].seed # seen[r2].seed
        /\ snap[r1].seed_input # snap[r2].seed_input

\* C10: the default of each drop-down is one of its own options: the 'Quaking
\* Aspen' module of its own folder when there is one, else the first module of
\* its own folder.
C10_DefaultAmongOwnOptions ==
    /\ para_enum.default \in Values(para_enum)
    /\ lsys_enum.default \in Values(lsys_enum)

---------------------------------------------------------------------------
(* Properties of the customizer inputs *)

\* C8 as stated: every scale and ratio field is strictly positive, floorSplits
\* is at least 0 and levelCount is within 1..6.
C8_AllScalesPositive ==
    /\ cust.g_scale_input > 0
    /\ cust.g_scale_v_input > 0
    /\ cust.tree_ratio_input > 0
    /\ cust.tree_ratio_power_input > 0
    /\ cust.tree_leaf_scale > 0
    /\ cust.tree_leaf_scale_x > 0
    /\ cust.tree_blossom_scale_input > 0
    /\ cust.tree_floor_split_input >= 0
    /\ cust.tree_level_count_input \in 1..6

\* C8 amended: baseScale, ratio, leaf scale, leaf scaleX and blossom scale are
\* strictly positive; scaleVariance and ratioPower are at least 0 (zero is
\* accepted); floorSplits is at least 0 and levelCount is within 1..6.
C8_ScalesPositiveVarianceAndPowerNonNegative ==
    /\ cust.g_scale_input > 0
    /\ cust.g_scale_v_input >= 0
    /\ cust.tree_ratio_input > 0
    /\ cust.tree_ratio_power_input >= 0
    /\ cust.tree_leaf_scale > 0
    /\ cust.tree_leaf_scale_x > 0
    /\ cust.tree_blossom_scale_input > 0
    /\ cust.tree_floor_split_input >= 0
    /\ cust.tree_level_count_input \in 1..6

\* the user has typed zero into every scale and ratio input: the variance and
\* the power are zero, the others sit at their smallest positive value
C8_Witness ==
    /\ cust.g_scale_v_input = 0
    /\ cust.tree_ratio_power_input = 0
    /\ \A p \in {"g_scale_input", "tree_ratio_input", "tree_leaf_scale",
                  "tree_leaf_scale_x", "tree_blossom_scale_input"} :
            cust[p] = PropMin(p) /\ cust[p] # PropDefault(p)


---------------------------------------------------------------------------
(* The L-system turtle.  ch_trees.lsystems is not part of gui.py; this is   *)
(* the interpreter as the design document describes it: the turtle walks   *)
(* the expanded string left to right, '[' saves the turtle state and opens *)
(* a stem parented to the current one, ']' restores the state saved by the *)
(* matching '[', and an unmatched bracket aborts with MalformedGrammar.    *)

Symbols == {"F", "+", "-", "[", "]"}

RECURSIVE StringsUpTo(_)
StringsUpTo(n) ==
    IF n = 0 THEN { <<>> }
    ELSE StringsUpTo(n - 1) \cup
         {Append(w, c) : w \in {v \in StringsUpTo(n - 1) : Len(v) = n - 1}, c \in Symbols}

\* unit step along one of four headings; turns are by a quarter
StepOf(heading) ==
    CASE heading = 0 -> <<1, 0>>
      [] heading = 1 -> <<0, 1>>
      [] heading = 2 -> <<-1, 0>>
      [] heading = 3 -> <<0, -1>>

InitialTurtle == [pos |-> <<0, 0>>, heading |-> 1, stem |-> 1]
RootStem      == [parent |-> 0, level |-> 0, segments |-> 0]

InitTurtle ==
    /\ tstr \in StringsUpTo(MaxSymbols)
    /\ ti = 0
    /\ turtle = InitialTurtle
    /\ tstack = <<>>
    /\ tstatus = "running"
    /\ thist = <<>>
    /\ stems = <<RootStem>>
    /\ InitGuiOff /\ InitCustOff /\ InitPruneOff

Current == tstr[ti + 1]

Advance ==
    /\ ti' = ti + 1
    /\ thist' = Append(thist, turtle)
    /\ UNCHANGED <<tstr, guiVars, custVars, pruneVars>>

\* move-and-draw: one more segment on the current stem
TurtleDraw ==
    /\ tstatus = "running" /\ ti < Len(tstr) /\ Current = "F"
    /\ turtle' = [turtle EXCEPT !.pos = <<@[1] + StepOf(turtle.heading)[1],
                                         @[2] + StepOf(turtle.heading)[2]>>]
    /\ stems' = [stems EXCEPT ![turtle.stem].segments = @ + 1]
    /\ UNCHANGED <<tstack, tstatus>>
    /\ Advance

TurtleTurn ==
    /\ tstatus = "running" /\ ti < Len(tstr) /\ Current \in {"+", "-"}
    /\ turtle' = [turtle EXCEPT !.heading =
                     IF Current = "+" THEN (@ + 1) % 4 ELSE (@ + 3) % 4]
    /\ UNCHANGED <<tstack, tstatus, stems>>
    /\ Advance

\* push-state, and a new stem parented to the current one
TurtlePush ==
    /\ tstatus = "running" /\ ti < Len(tstr) /\ Current = "["
    /\ tstack' = Append(tstack, turtle)
    /\ stems' = Append(stems, [parent   |-> turtle.stem,
                               level    |-> stems[turtle.stem].level + 1,
                               segments |-> 0])
    /\ turtle' = [turtle EXCEPT !.stem = Len(stems) + 1]
    /\ UNCHANGED tstatus
    /\ Advance

\* a pop with nothing saved is skipped without an error
PopOnEmptyIgnored(stack) == "running"

\* what a pop does to the run when the stack is `stack`
PopOnEmpty(stack) == IF stack = <<>> THEN "MalformedGrammar" ELSE "running"

\* pop-state
TurtlePop ==
    /\ tstatus = "running" /\ ti < Len(tstr) /\ Current = "]"
    /\ tstatus' = PopOnEmpty(tstack)
    /\ IF tstack = <<>>
       THEN UNCHANGED <<turtle, tstack>>
       ELSE /\ turtle' = tstack[Len(tstack)]
            /\ tstack' = SubSeq(tstack, 1, Len(tstack) - 1)
    /\ UNCHANGED stems
    /\ Advance

\* end of the string: a '[' left open is an unmatched bracket too
TurtleFinish ==
    /\ tstatus = "running" /\ ti = Len(tstr)
    /\ tstatus' = IF tstack = <<>> THEN "done" ELSE "MalformedGrammar"
    /\ UNCHANGED <<tstr, ti, turtle, tstack, thist, stems, guiVars, custVars, pruneVars>>

NextTurtle ==
    \/ TurtleDraw
    \/ TurtleTurn
    \/ TurtlePush
    \/ TurtlePop
    \/ TurtleFinish

SpecTurtle == InitTurtle /\ [][NextTurtle]_vars

(* Bracket structure of a string, counted on the string alone *)
Count(w, c) == Cardinality({i \in 1..Len(w) : w[i] = c})
Nesting(w)  == Count(w, "[") - Count(w, "]")
NoExtraPop(w) == \A n \in 0..Len(w) : Nesting(SubSeq(w, 1, n)) >= 0
Balanced(w) == NoExtraPop(w) /\ Nesting(w) = 0

\* the '[' that the ']' at position k closes
MatchingPush(w, k) ==
    CHOOSE j \in 1..(k - 1) :
        /\ w[j] = "["
        /\ Balanced(SubSeq(w, j + 1, k - 1))

\* C6: after each symbol the stack depth is the number of '[' not yet closed;
\* each ']' restores exactly the state saved by its matching '['; a ']' met with
\* an empty stack fails with MalformedGrammar instead of being ignored; a string
\* with balanced brackets never fails, and the nesting level of the current stem
\* is the bracket nesting depth.
C6_StackMatchesBrackets ==
    LET done == SubSeq(tstr, 1, ti)
    IN  /\ ~NoExtraPop(done) => tstatus = "MalformedGrammar"
        /\ tstatus = "MalformedGrammar" =>
              \/ ~NoExtraPop(done)
              \/ ti = Len(tstr) /\ Nesting(tstr) > 0
        /\ NoExtraPop(done) =>
              /\ Len(tstack) = Nesting(done)
              /\ stems[turtle.stem].level = Nesting(done)
              /\ (ti > 0 /\ tstr[ti] = "]") => turtle = thist[MatchingPush(tstr, ti)]
        /\ Balanced(tstr) => tstatus # "MalformedGrammar"
        /\ (tstatus = "done") => Balanced(tstr)

\* a finished walk over a string with a bracket nested inside another
C6_Witness ==
    /\ tstatus = "done"
    /\ Balanced(tstr)
    /\ \E i \in 1..Len(stems) : stems[i].level = 2
    /\ tstr[Len(tstr)] = "]"


---------------------------------------------------------------------------
(* The pruning retry loop.  ch_trees.parametric is not part of gui.py      *)
(* (lines 145-149 only sketch the pruning inputs); this is the loop as the *)
(* design document describes it: a candidate child stem whose endpoint is  *)
(* outside the envelope is regenerated with reduced length, up to a bounded*)
(* retry count, after which the best candidate is accepted with a          *)
(* PruningExhausted warning.                                               *)

MaxPruneRetries == 3

\* a stem grows from its split point by its length; the envelope reaches `width`
Endpoint(stem, len) == stem.start + len
Inside(stem, len)   == Endpoint(stem, len) <= stem.width

\* regenerated with reduced length: three quarters, rounded down
Reduced(len) == (len * 3) \div 4

\* a retry that is not counted
RetryNotCounted(n) == n

\* the retry count after one more retry
RetryCounted(n) == n + 1

NewStems == [start : 0..MaxPos, width : 0..MaxPos]

InitPrune ==
    /\ pstem \in [index : {1}, start : 0..MaxPos, width : 0..MaxPos]
    /\ plen \in 1..MaxStemLen
    /\ ptries = 0
    /\ pstatus = "testing"
    /\ pwarn = 0
    /\ pbest = plen
    /\ InitGuiOff /\ InitCustOff /\ InitTurtleOff

\* the candidate's endpoint is inside the envelope: keep it
PruneAccept ==
    /\ pstatus = "testing"
    /\ Inside(pstem, plen)
    /\ pstatus' = "accepted"
    /\ pbest' = plen
    /\ UNCHANGED <<pstem, plen, ptries, pwarn, guiVars, custVars, turtleVars>>

\* outside, retries left: discard it and regenerate it shorter
PruneRetry ==
    /\ pstatus = "testing"
    /\ ~Inside(pstem, plen)
    /\ ptries < MaxPruneRetries
    /\ ptries' = RetryCounted(ptries)
    /\ plen' = Reduced(plen)
    /\ pbest' = Reduced(plen)             \* the shortest candidate overshoots least
    /\ UNCHANGED <<pstem, pstatus, pwarn, guiVars, custVars, turtleVars>>

\* outside, no retry left: accept the best candidate and warn
PruneExhausted ==
    /\ pstatus = "testing"
    /\ ~Inside(pstem, plen)
    /\ ptries >= MaxPruneRetries
    /\ pstatus' = "accepted"
    /\ pwarn' = pwarn + 1
    /\ UNCHANGED <<pstem, plen, ptries, pbest, guiVars, custVars, turtleVars>>

\* the next child stem: a new split point and a new length from the generator
PruneNextStem ==
    /\ pstatus = "accepted"
    /\ pstem.index < MaxStems
    /\ \E st \in NewStems, len \in 1..MaxStemLen :
          /\ pstem' = [index |-> pstem.index + 1, start |-> st.start, width |-> st.width]
          /\ plen' = len
          /\ pbest' = len
    /\ ptries' = 0
    /\ pstatus' = "testing"
    /\ UNCHANGED <<pwarn, guiVars, custVars, turtleVars>>

\* every child stem is settled: generation finishes
PruneFinish ==
    /\ pstatus = "accepted"
    /\ pstem.index = MaxStems
    /\ pstatus' = "finished"
    /\ UNCHANGED <<pstem, plen, ptries, pwarn, pbest, guiVars, custVars, turtleVars>>

NextPrune ==
    \/ PruneAccept
    \/ PruneRetry
    \/ PruneExhausted
    \/ PruneNextStem
    \/ PruneFinish

\* the generator is a plain loop on its own thread: it keeps taking steps
SpecPrune == InitPrune /\ [][NextPrune]_vars /\ WF_vars(NextPrune)

\* C7: the pruning retry loop terminates: a stem is regenerated at most the
\* bounded number of times, the best candidate is then accepted, so generation
\* eventually finishes.
C7_PruningTerminates ==
    /\ [](ptries <= MaxPruneRetries)
    /\ <>(pstatus = "finished")

\* generation finished after a stem ran out of retries and was accepted with
\* a warning
C7_Witness ==
    /\ pstatus = "finished"
    /\ pwarn > 0
    /\ ptries = MaxPruneRetries

===========================================================================
